---- MODULE Spec2Model ----
(***************************************************************************)
(* clawd-models (bin/clawd-models.js): a CLI that picks one of three bot   *)
(* configuration files (--bot flag, saved preference, auto-detect) and     *)
(* edits the JSON document in it.                                          *)
(*                                                                         *)
(* The disk is the state: one config file per bot, the preference file     *)
(* ~/.clawd-models/bot.json, and a clock read by new Date().  One action   *)
(* is one run of the program from process start to exit; the commands are  *)
(* pure operators on (argv, disk) translated from the handlers.            *)
(*                                                                         *)
(* Abstractions.  A JSON file is held as the value JSON.parse gives for    *)
(* it (kind "doc"/"json"), as "partial" (a strict prefix of a serialised   *)
(* document, which is never valid JSON) or as "absent".  Key order and     *)
(* indentation are not modelled.  Of a provider, a model and an agent the  *)
(* fields kept are those a command reads back (ids, names, key, auth);     *)
(* the host bots' other sections of the document are carried unchanged by  *)
(* every command and are left out.  The editor that `edit` starts is the   *)
(* user's; it is modelled as quitting without saving.                      *)
(*                                                                         *)
(* Two runs at once: procs holds, for each of two processes, how far its   *)
(* run has come (not started, config file read and changed in memory,      *)
(* exited).  The runs that are one action leave procs alone.               *)
(***************************************************************************)
EXTENDS Naturals, Sequences, FiniteSets

VARIABLES files, botFile, clock, last, procs

vars == <<files, botFile, clock, last, procs>>

\* JavaScript's null (returned bot id, agents.defaults.model.primary).
Null == "<null>"

\* ------------------------------------------------------------ bounds
\* Last instant of the clock: at most MaxClock timestamps are ever taken.
MaxClock == 1

\* ------------------------------------------------------------ registry
CURRENT_VERSION == "2026.2.1"

\* A version string other than CURRENT_VERSION, as a host bot or another
\* release of the tool leaves it in meta.lastTouchedVersion.
OtherVersion == "2026.1.30"

BOT_CONFIGS ==
  << [id |-> "openclaw", name |-> "OpenClaw", path |-> ".openclaw/openclaw.json"],
     [id |-> "clawdbot", name |-> "ClawdBot", path |-> ".clawdbot/clawdbot.json"],
     [id |-> "moltbot",  name |-> "MoltBot",  path |-> ".moltbot/moltbot.json"] >>

BotIds == {BOT_CONFIGS[i].id : i \in DOMAIN BOT_CONFIGS}

ConfigPaths == {BOT_CONFIGS[i].path : i \in DOMAIN BOT_CONFIGS}

\* BOT_CONFIGS.some(b => b.id === botId)
KnownBot(botId) == \E i \in DOMAIN BOT_CONFIGS : BOT_CONFIGS[i].id = botId

\* BOT_CONFIGS.find(b => b.id === botId), for a known id
FindBot(botId) ==
  BOT_CONFIGS[CHOOSE i \in DOMAIN BOT_CONFIGS :
                /\ BOT_CONFIGS[i].id = botId
                /\ \A j \in DOMAIN BOT_CONFIGS : BOT_CONFIGS[j].id = botId => i <= j]

getBotConfigPath(botId) ==
  IF KnownBot(botId) THEN FindBot(botId).path ELSE Null

\* fs.existsSync on a config path: a truncated file exists too.
existsSync(fs, path) == path \in DOMAIN fs /\ fs[path].kind # "absent"

\* ------------------------------------------------------------ preference file
\* Contents of ~/.clawd-models/bot.json: absent; "corrupt" (unreadable or not
\* JSON: readFileSync or JSON.parse throws); or a JSON object whose "bot"
\* member is the given string ("" when the member is missing or falsy).
BotFileAbsent == [kind |-> "absent", bot |-> ""]

BotFileCorrupt == [kind |-> "corrupt", bot |-> ""]

BotFileOf(botId) == [kind |-> "json", bot |-> botId]

loadPreferredBot(bf) ==
  IF bf.kind # "absent"
  THEN IF bf.kind = "corrupt"
       THEN Null
       ELSE IF bf.bot # "" /\ KnownBot(bf.bot) THEN bf.bot ELSE Null
  ELSE Null

\* Returns the file after the call; exited when process.exit(1) was taken.
savePreferredBot(bf, botId) ==
  IF ~KnownBot(botId)
  THEN [exited |-> TRUE, botFile |-> bf]
  ELSE [exited |-> FALSE, botFile |-> BotFileOf(botId)]

clearPreferredBot(bf) ==
  IF bf.kind # "absent" THEN BotFileAbsent ELSE bf

\* ------------------------------------------------------------ resolver
\* priorityOrder with its first two entries exchanged.
priorityOrderSwapped == <<"clawdbot", "openclaw", "moltbot">>

priorityOrder == <<"openclaw", "clawdbot", "moltbot">>

\* The loop over priorityOrder from index i: the first id whose file exists.
RECURSIVE FirstExisting(_, _)
FirstExisting(fs, i) ==
  IF i > Len(priorityOrder)
  THEN Null
  ELSE IF existsSync(fs, getBotConfigPath(priorityOrder[i]))
       THEN priorityOrder[i]
       ELSE FirstExisting(fs, i + 1)

\* A resolution: err is "" or the error thrown; via says which branch
\* returned; paths are the config paths the error message names.
Resolved(botId, via, bf) ==
  [err |-> "", bot |-> botId, configPath |-> getBotConfigPath(botId),
   via |-> via, botFile |-> bf, paths |-> {}]

ResolveError(err, bf, paths) ==
  [err |-> err, bot |-> Null, configPath |-> Null, via |-> "none",
   botFile |-> bf, paths |-> paths]

AutoDetect(fs, bf) ==
  LET botId == FirstExisting(fs, 1) IN
  IF botId # Null
  THEN Resolved(botId, "auto", savePreferredBot(bf, botId).botFile)
  ELSE ResolveError("NoTargetsAvailable", bf, {})

\* resolveConfigSync without the fs.existsSync test on the saved bot's file.
resolveConfigSyncTrustSaved(botOption, fs, bf) ==
  IF botOption # Null
  THEN IF ~KnownBot(botOption)
       THEN ResolveError("UnknownTarget", bf, {})
       ELSE IF ~existsSync(fs, getBotConfigPath(botOption))
            THEN ResolveError("ConfigFileNotFound", bf, {getBotConfigPath(botOption)})
            ELSE Resolved(botOption, "explicit", bf)
  ELSE LET savedBot == loadPreferredBot(bf) IN
       IF savedBot # Null /\ KnownBot(savedBot)
       THEN Resolved(savedBot, "saved", bf)
       ELSE AutoDetect(fs, bf)

resolveConfigSync(botOption, fs, bf) ==
  IF botOption # Null
  THEN IF ~KnownBot(botOption)
       THEN ResolveError("UnknownTarget", bf, {})
       ELSE IF ~existsSync(fs, getBotConfigPath(botOption))
            THEN ResolveError("ConfigFileNotFound", bf, {getBotConfigPath(botOption)})
            ELSE Resolved(botOption, "explicit", bf)
  ELSE LET savedBot == loadPreferredBot(bf) IN
       IF savedBot # Null /\ KnownBot(savedBot)
                          /\ existsSync(fs, getBotConfigPath(savedBot))
       THEN Resolved(savedBot, "saved", bf)
       ELSE AutoDetect(fs, bf)

\* getBotFromArgs without the write of bot.json.
getBotFromArgsNoSave(botArg, fs, bf) ==
  IF botArg # ""
  THEN IF ~KnownBot(botArg)
       THEN [exited |-> TRUE, err |-> "UnknownTarget", botId |-> Null,
             botFile |-> bf, paths |-> {}]
       ELSE IF ~existsSync(fs, getBotConfigPath(botArg))
            THEN [exited |-> TRUE, err |-> "ConfigFileNotFound", botId |-> Null,
                  botFile |-> bf, paths |-> {getBotConfigPath(botArg)}]
            ELSE [exited |-> FALSE, err |-> "", botId |-> botArg,
                  botFile |-> bf, paths |-> {}]
  ELSE [exited |-> FALSE, err |-> "", botId |-> Null, botFile |-> bf, paths |-> {}]

\* getBotFromArgs writing bot.json before it looks for the config file.
getBotFromArgsSaveFirst(botArg, fs, bf) ==
  IF botArg # ""
  THEN IF ~KnownBot(botArg)
       THEN [exited |-> TRUE, err |-> "UnknownTarget", botId |-> Null,
             botFile |-> bf, paths |-> {}]
       ELSE IF ~existsSync(fs, getBotConfigPath(botArg))
            THEN [exited |-> TRUE, err |-> "ConfigFileNotFound", botId |-> Null,
                  botFile |-> BotFileOf(botArg), paths |-> {getBotConfigPath(botArg)}]
            ELSE [exited |-> FALSE, err |-> "", botId |-> botArg,
                  botFile |-> BotFileOf(botArg), paths |-> {}]
  ELSE [exited |-> FALSE, err |-> "", botId |-> Null, botFile |-> bf, paths |-> {}]

\* argv's --bot value ("" models the flag not being on the command line).
\* exited: process.exit(1) was taken; botId: the value returned.
getBotFromArgs(botArg, fs, bf) ==
  IF botArg # ""
  THEN IF ~KnownBot(botArg)
       THEN [exited |-> TRUE, err |-> "UnknownTarget", botId |-> Null,
             botFile |-> bf, paths |-> {}]
       ELSE IF ~existsSync(fs, getBotConfigPath(botArg))
            THEN [exited |-> TRUE, err |-> "ConfigFileNotFound", botId |-> Null,
                  botFile |-> bf, paths |-> {getBotConfigPath(botArg)}]
            ELSE [exited |-> FALSE, err |-> "", botId |-> botArg,
                  botFile |-> BotFileOf(botArg), paths |-> {}]
  ELSE [exited |-> FALSE, err |-> "", botId |-> Null, botFile |-> bf, paths |-> {}]

\* ------------------------------------------------------------ document
\* generateToken: TOKEN_LENGTH characters of chars, the i-th one picked by the
\* i-th value of Math.floor(Math.random() * chars.length), here rnd[i] - 1.
TOKEN_LENGTH == 40

chars == <<"a", "b", "c", "d", "e", "f",
           "0", "1", "2", "3", "4", "5", "6", "7", "8", "9">>

\* Number of random sources beyond the first.
MaxSeed == 1

\* The random source of seed k yields ((i * k) % chars.length) + 1 at draw i.
RandomSource(k) == [i \in 1..TOKEN_LENGTH |-> ((i * k) % Len(chars)) + 1]

Seeds == 0..MaxSeed

generateToken(rnd) == [i \in 1..TOKEN_LENGTH |-> chars[rnd[i]]]

NoFields == {}

\* The document `init` builds (its meta.lastTouchedVersion is CURRENT_VERSION).
initialConfig(now, token) ==
  [meta      |-> [lastTouchedVersion |-> CURRENT_VERSION,
                  lastTouchedAt |-> now, other |-> NoFields],
   profiles  |-> <<>>,
   providers |-> <<>>,
   primary   |-> Null,
   list      |-> <<>>,
   port      |-> 18789,
   token     |-> token]

\* A config file: absent, a parsed document, or a truncated serialisation.
Absent == [kind |-> "absent", doc |-> <<>>]

Partial == [kind |-> "partial", doc |-> <<>>]

DocFile(doc) == [kind |-> "doc", doc |-> doc]

\* The document a host bot (or a release of this tool) created its file with.
HostDoc(version) ==
  [initialConfig(0, generateToken(RandomSource(0)))
     EXCEPT !.meta.lastTouchedVersion = version]

\* config.meta.lastTouchedAt = new Date().toISOString()
Touch(config, now) == [config EXCEPT !.meta.lastTouchedAt = now]

\* obj[key] = value on a JSON object held as a function
Put(obj, key, value) ==
  [k \in (DOMAIN obj) \cup {key} |-> IF k = key THEN value ELSE obj[k]]

\* delete obj[key]
Delete(obj, key) == [k \in (DOMAIN obj) \ {key} |-> obj[k]]

\* list.findIndex(x => x.id === id): 0 models -1.
RECURSIVE FindIndexFrom(_, _, _)
FindIndexFrom(list, id, i) ==
  IF i > Len(list) THEN 0
  ELSE IF list[i].id = id THEN i ELSE FindIndexFrom(list, id, i + 1)

findIndex(list, id) == FindIndexFrom(list, id, 1)

\* list.splice(idx, 1)
splice(list, idx) ==
  [i \in 1..(Len(list) - 1) |-> IF i < idx THEN list[i] ELSE list[i + 1]]

\* What a handler did with the parsed document: outcome "ok" or the refusal,
\* the document in memory, and whether fs.writeFileSync was reached.
Done(config) == [outcome |-> "ok", doc |-> config, write |-> TRUE]

Refused(outcome, config) == [outcome |-> outcome, doc |-> config, write |-> FALSE]

\* ------------------------------------------------------------ commands
\* ProvidersAdd keeping the models of a provider that is already stored.
ProvidersAddKeepModels(config, o, now) ==
  LET provider == [baseUrl |-> o.baseUrl, api |-> o.api, auth |-> o.auth,
                   apiKey |-> o.apiKey,
                   models |-> IF o.name \in DOMAIN config.providers
                              THEN config.providers[o.name].models ELSE <<>>]
  IN Done(Touch([config EXCEPT !.providers = Put(@, o.name, provider)], now))

ProvidersAdd(config, o, now) ==
  LET provider == [baseUrl |-> o.baseUrl, api |-> o.api, auth |-> o.auth,
                   apiKey |-> o.apiKey, models |-> <<>>]
  IN Done(Touch([config EXCEPT !.providers = Put(@, o.name, provider)], now))

ProvidersRemove(config, o, now) ==
  IF o.name \in DOMAIN config.providers
  THEN Done(Touch([config EXCEPT !.providers = Delete(@, o.name)], now))
  ELSE Refused("NotFound", config)

\* ModelsAdd without the search for the id among the provider's models.
ModelsAddNoDuplicateCheck(config, o, now) ==
  IF o.provider \notin DOMAIN config.providers
  THEN Refused("ProviderNotFound", config)
  ELSE Done(Touch([config EXCEPT
         !.providers[o.provider].models =
            Append(@, [id |-> o.id, name |-> o.name])], now))

ModelsAdd(config, o, now) ==
  IF o.provider \notin DOMAIN config.providers
  THEN Refused("ProviderNotFound", config)
  ELSE LET provider == config.providers[o.provider]
           model == [id |-> o.id, name |-> o.name]
       IN IF findIndex(provider.models, o.id) # 0
          THEN Refused("DuplicateModel", config)
          ELSE Done(Touch([config EXCEPT
                 !.providers[o.provider].models = Append(@, model)], now))

ModelsRemove(config, o, now) ==
  IF o.provider \notin DOMAIN config.providers
  THEN Refused("ProviderNotFound", config)
  ELSE LET idx == findIndex(config.providers[o.provider].models, o.id)
       IN IF idx = 0
          THEN Refused("ModelNotFound", config)
          ELSE Done(Touch([config EXCEPT
                 !.providers[o.provider].models = splice(@, idx)], now))

AgentsAdd(config, o, now) ==
  IF findIndex(config.list, o.id) # 0
  THEN Refused("DuplicateAgent", config)
  ELSE LET agent == [id |-> o.id, name |-> o.name]
       IN Done(Touch([config EXCEPT !.list = Append(@, agent)], now))

AgentsRemove(config, o, now) ==
  LET idx == findIndex(config.list, o.id)
  IN IF idx = 0
     THEN Refused("AgentNotFound", config)
     ELSE Done(Touch([config EXCEPT !.list = splice(@, idx)], now))

\* AgentsSetDefault refusing an --agent that agents.list does not hold.
AgentsSetDefaultKnownAgent(config, o, now) ==
  IF findIndex(config.list, o.agent) = 0
  THEN Refused("AgentNotFound", config)
  ELSE Done(Touch([config EXCEPT !.primary = o.model], now))

AgentsSetDefault(config, o, now) ==
  Done(Touch([config EXCEPT !.primary = o.model], now))

GatewayRefreshToken(config, o, now) ==
  Done(Touch([config EXCEPT !.token = generateToken(RandomSource(o.seed))], now))

AuthAddProfile(config, o, now) ==
  Done(Touch([config EXCEPT
    !.profiles = Put(@, o.name, [provider |-> o.provider, mode |-> o.mode])], now))

Edit(config, o, now) ==
  Done([config EXCEPT !.meta.lastTouchedVersion = CURRENT_VERSION,
                      !.meta.lastTouchedAt = now])

\* import: `imported` is the file named by --file, held like a config file.
Import(imported, now) ==
  IF imported.kind = "absent"
  THEN Refused("FileNotFound", <<>>)
  ELSE IF imported.kind # "doc"
       THEN Refused("ConfigParseError", <<>>)
       ELSE Done([imported.doc EXCEPT
              !.meta = [lastTouchedVersion |-> CURRENT_VERSION,
                        lastTouchedAt |-> now, other |-> NoFields]])

View(config, o, now) == Refused("ok", config)

\* ------------------------------------------------------------ test request
\* Strings whose characters matter (keys, header names and values) are
\* spelled as sequences of characters where the code slices or searches them.
KeyChars ==
  << "s", "k", "-", "a", "b", "c", "d", "e", "f", "g", "h", "i", "j",
     "k", "l", "m", "n", "o", "p", "q", "r", "s", "t", "u", "v", "w",
     "x", "y", "z", "0", "1", "2", "3", "4", "5", "6", "7", "8", "9" >>

\* The characters of a stored key.
Spell(key) ==
  CASE key = "" -> << >>
    [] key = "sk-1" -> << "s", "k", "-", "1" >>
    [] key = "sk-abcdefghijklmnopqrstuv" -> SubSeq(KeyChars, 1, 25)
    [] key = "sk-abcdefghijklmnopqrstuvw" -> SubSeq(KeyChars, 1, 26)
    [] key = "sk-abcdefghijklmnopqrstuvwxyz01" -> SubSeq(KeyChars, 1, 31)
    [] key = "sk-abcdefghijklmnopqrstuvwxyz012" -> SubSeq(KeyChars, 1, 32)
    [] key = "sk-abcdefghijklmnopqrstuvwxyz0123" -> SubSeq(KeyChars, 1, 33)
    [] key = "sk-abcdefghijklmnopqrstuvwxyz0123456789" -> SubSeq(KeyChars, 1, 39)

\* `Bearer ${apiKey}`
Bearer(key) == << "B", "e", "a", "r", "e", "r", " " >> \o Spell(key)

ApplicationJson ==
  << "a", "p", "p", "l", "i", "c", "a", "t", "i", "o", "n", "/", "j",
     "s", "o", "n" >>

AnthropicVersion == << "2", "0", "2", "3", "-", "0", "6", "-", "0", "1" >>

HeaderNameChars(name) ==
  CASE name = "Authorization" ->
         << "A", "u", "t", "h", "o", "r", "i", "z", "a", "t", "i", "o", "n" >>
    [] name = "X-API-Key" ->
         << "X", "-", "A", "P", "I", "-", "K", "e", "y" >>
    [] name = "Content-Type" ->
         << "C", "o", "n", "t", "e", "n", "t", "-", "T", "y", "p", "e" >>
    [] name = "anthropic-version" ->
         << "a", "n", "t", "h", "r", "o", "p", "i", "c", "-", "v", "e", "r",
            "s", "i", "o", "n" >>

\* String.prototype.toLowerCase, on the letters header names hold.
toLowerCase(str) ==
  [i \in 1..Len(str) |->
     CASE str[i] = "A" -> "a" [] str[i] = "C" -> "c" [] str[i] = "I" -> "i"
       [] str[i] = "K" -> "k" [] str[i] = "P" -> "p" [] str[i] = "T" -> "t"
       [] str[i] = "X" -> "x" [] OTHER -> str[i]]

\* String.prototype.includes
includes(str, part) ==
  \E i \in 0..(Len(str) - Len(part)) :
    \A j \in 1..Len(part) : str[i + j] = part[j]

\* '********************************'
MaskString == [i \in 1..32 |-> "*"]

\* The display of one header keeping the last 4 characters of a long value.
DisplayValueLast4(name, value) ==
  LET key == toLowerCase(HeaderNameChars(name)) IN
  IF includes(key, << "a", "p", "i" >>)
       \/ includes(key, << "a", "u", "t", "h", "o", "r", "i", "z", "a", "t", "i", "o", "n" >>)
  THEN IF Len(value) > 32
       THEN MaskString \o SubSeq(value, Len(value) - 3, Len(value))
       ELSE MaskString
  ELSE value

\* The display of one header: "hide last 32 chars".
DisplayValue(name, value) ==
  LET key == toLowerCase(HeaderNameChars(name)) IN
  IF includes(key, << "a", "p", "i" >>)
       \/ includes(key, << "a", "u", "t", "h", "o", "r", "i", "z", "a", "t", "i", "o", "n" >>)
  THEN IF Len(value) > 32
       THEN SubSeq(value, 1, Len(value) - 32) \o MaskString
       ELSE MaskString
  ELSE value

\* defaultModel.split('/'): the provider name, and the rest joined again.
SplitModel(defaultModel) ==
  CASE defaultModel = "qiniu/m1"   -> [providerName |-> "qiniu", modelId |-> "m1"]
    [] defaultModel = "minimax/m2" -> [providerName |-> "minimax", modelId |-> "m2"]

\* provider.baseUrl.replace(/\/$/, '')
StripSlash(baseUrl) ==
  IF baseUrl = "https://api.example.com/v1/"
  THEN "https://api.example.com/v1" ELSE baseUrl

\* The headers object, in insertion order: the auth headers of the
\* stored key and auth mode with X-API-Key sent under "bearer" too.
BuildHeadersAlwaysBoth(provider) ==
  (IF provider.apiKey # ""
   THEN << [name |-> "Authorization", value |-> Bearer(provider.apiKey)],
           [name |-> "X-API-Key", value |-> Spell(provider.apiKey)] >>
   ELSE << >>)
  \o << [name |-> "Content-Type", value |-> ApplicationJson] >>
  \o (IF provider.api = "anthropic-messages"
      THEN << [name |-> "anthropic-version", value |-> AnthropicVersion] >>
      ELSE << >>)

\* The headers object, in insertion order.
BuildHeaders(provider) ==
  (IF provider.apiKey # ""
   THEN IF provider.auth = "bearer"
        THEN << [name |-> "Authorization", value |-> Bearer(provider.apiKey)] >>
        ELSE << [name |-> "Authorization", value |-> Bearer(provider.apiKey)],
                [name |-> "X-API-Key", value |-> Spell(provider.apiKey)] >>
   ELSE << >>)
  \o << [name |-> "Content-Type", value |-> ApplicationJson] >>
  \o (IF provider.api = "anthropic-messages"
      THEN << [name |-> "anthropic-version", value |-> AnthropicVersion] >>
      ELSE << >>)

NoRequest == [endpoint |-> << >>, headers |-> << >>, body |-> << >>]

NotSent(outcome, config) ==
  [outcome |-> outcome, doc |-> config, write |-> FALSE,
   request |-> NoRequest, shown |-> << >>]

\* models:test up to its fetch: the request handed to fetch and the header
\* lines printed before it.  The exchange itself is the network's.
ModelsTest(config, o, now) ==
  LET defaultModel == config.primary IN
  IF defaultModel = Null \/ defaultModel = ""
  THEN NotSent("NoDefaultModel", config)
  ELSE LET providerName == SplitModel(defaultModel).providerName
           modelId == SplitModel(defaultModel).modelId
       IN
       IF providerName \notin DOMAIN config.providers
       THEN NotSent("ProviderNotFound", config)
       ELSE LET provider == config.providers[providerName] IN
            IF provider.api \notin {"openai-completions", "anthropic-messages"}
            THEN NotSent("UnsupportedApi", config)
            ELSE LET endpoint ==
                       << StripSlash(provider.baseUrl),
                          IF provider.api = "openai-completions"
                          THEN "/chat/completions" ELSE "/v1/messages" >>
                     headers == BuildHeaders(provider)
                     body == [model |-> modelId, role |-> "user",
                              content |-> "hi, there", max_tokens |-> 10]
                 IN [outcome |-> "sent", doc |-> config, write |-> FALSE,
                     request |-> [endpoint |-> endpoint, headers |-> headers,
                                  body |-> body],
                     shown |-> [i \in 1..Len(headers) |->
                                  [name |-> headers[i].name,
                                   value |-> DisplayValue(headers[i].name,
                                                          headers[i].value)]]]

\* Stored keys of 0, 4, 25, 26, 31, 32, 33 and 39 characters.
TestKeys ==
  {"", "sk-1",
   "sk-abcdefghijklmnopqrstuv",
   "sk-abcdefghijklmnopqrstuvw",
   "sk-abcdefghijklmnopqrstuvwxyz01",
   "sk-abcdefghijklmnopqrstuvwxyz012",
   "sk-abcdefghijklmnopqrstuvwxyz0123",
   "sk-abcdefghijklmnopqrstuvwxyz0123456789"}

\* ------------------------------------------------------------ command line
ProviderNames == {"qiniu", "minimax"}

ModelIds == {"m1", "m2"}

AgentIds == {"main", "code"}

\* --bot values tried: none (""), the registry's ids, and an id outside it.
BotArgs == {""} \cup BotIds \cup {"otherbot"}

\* A provider's models twice under one id, an agent id twice: a JSON file a
\* user may hand to `import`.
DupDoc ==
  [HostDoc(OtherVersion) EXCEPT
     !.providers = Put(<<>>, "qiniu",
        [baseUrl |-> "https://api.example.com/v1", api |-> "openai-completions",
         auth |-> "api-key", apiKey |-> "",
         models |-> << [id |-> "m1", name |-> "one"], [id |-> "m1", name |-> "two"] >>]),
     !.list = << [id |-> "main", name |-> ""], [id |-> "main", name |-> ""] >>]

\* A document of another release, whose meta carries a further member.
ForeignDoc ==
  [HostDoc(OtherVersion) EXCEPT !.meta.other = {"generator"},
                                !.primary = "qiniu/m1"]

\* The files --file may name.
ImportFiles == {"missing.json", "broken.json", "dup.json", "foreign.json"}

ReadImportFile(file) ==
  CASE file = "missing.json" -> Absent
    [] file = "broken.json"  -> Partial
    [] file = "dup.json"     -> DocFile(DupDoc)
    [] file = "foreign.json" -> DocFile(ForeignDoc)

\* The file a shell redirection (`export > out.json`) collects stdout in.
OutFile == "out.json"

\* A file of captured output: the console.log calls of the run, in order.
TextFile(out) == [kind |-> "text", doc |-> out]

\* What resolution prints on stdout: getBotFromArgs logs the bot it saved,
\* the auto-detect loop logs the bot it found; a saved preference is silent.
ResolutionLog(r) ==
  IF r.via = "explicit"
  THEN << [kind |-> "log", text |-> "Default bot set to: ", bot |-> r.bot] >>
  ELSE IF r.via = "auto"
       THEN << [kind |-> "log", text |-> "Auto-detected bot: ", bot |-> r.bot] >>
       ELSE << >>

\* stdout of `export`: the resolution's lines, then JSON.stringify(config,
\* null, 2) when the config file parsed (JSON.parse throws on a truncated one).
ExportOutput(r, file) ==
  ResolutionLog(r) \o (IF file.kind = "doc"
                       THEN << [kind |-> "json", doc |-> file.doc] >>
                       ELSE << >>)

\* JSON.parse of a file's text: a document when the text is one JSON value
\* and nothing else, else a SyntaxError (held like a truncated file).
ParseFile(file) ==
  IF file.kind = "text"
  THEN IF Len(file.doc) = 1 /\ file.doc[1].kind = "json"
       THEN DocFile(file.doc[1].doc)
       ELSE Partial
  ELSE file

\* fs.existsSync(options.file) and the read of it: a file of the disk, or
\* one of the prepared files.
ReadFile(fs, file) ==
  IF file \in DOMAIN fs THEN ParseFile(fs[file]) ELSE ReadImportFile(file)

\* The options of a command line; members a command does not take stay "".
NoOptions ==
  [name |-> "", baseUrl |-> "", api |-> "", auth |-> "", apiKey |-> "",
   provider |-> "", id |-> "", model |-> "", agent |-> "", mode |-> "",
   file |-> "", seed |-> 0]

OptionsOf(cmd) ==
  CASE cmd = "providers:add" ->
         {[NoOptions EXCEPT !.name = n, !.baseUrl = "https://api.example.com/v1",
                            !.api = "openai-completions",
                            !.auth = a[1], !.apiKey = a[2]] :
            n \in ProviderNames,
            a \in {<<"api-key", "">>, <<"api-key", "sk-1">>, <<"bearer", "sk-1">>}}
    [] cmd = "providers:remove" ->
         {[NoOptions EXCEPT !.name = n] : n \in ProviderNames}
    [] cmd \in {"models:add", "models:remove"} ->
         {[NoOptions EXCEPT !.provider = n, !.id = i,
                            !.name = IF cmd = "models:add" THEN "display" ELSE ""] :
            n \in ProviderNames, i \in ModelIds}
    [] cmd \in {"agents:add", "agents:remove"} ->
         {[NoOptions EXCEPT !.id = i] : i \in AgentIds}
    [] cmd = "agents:set-default" ->
         {[NoOptions EXCEPT !.agent = a, !.model = m] :
            a \in AgentIds, m \in {"qiniu/m1", "minimax/m2"}}
    [] cmd \in {"gateway:refresh-token", "init"} ->
         {[NoOptions EXCEPT !.seed = k] : k \in Seeds}
    [] cmd = "auth:add-profile" ->
         {[NoOptions EXCEPT !.name = "qiniu:default", !.provider = "qiniu",
                            !.mode = m] : m \in {"api_key", "bearer"}}
    [] cmd = "import" ->
         {[NoOptions EXCEPT !.file = f] : f \in ImportFiles}
    [] OTHER -> {NoOptions}

Commands ==
  {"init", "view", "export", "edit", "import",
   "providers:add", "providers:remove", "models:add", "models:remove",
   "agents:add", "agents:remove", "agents:set-default",
   "gateway:refresh-token", "auth:add-profile"}

\* The action handler of `cmd` on the parsed config file.
Handle(cmd, config, o, now) ==
  CASE cmd = "providers:add"         -> ProvidersAdd(config, o, now)
    [] cmd = "providers:remove"      -> ProvidersRemove(config, o, now)
    [] cmd = "models:add"            -> ModelsAdd(config, o, now)
    [] cmd = "models:remove"         -> ModelsRemove(config, o, now)
    [] cmd = "agents:add"            -> AgentsAdd(config, o, now)
    [] cmd = "agents:remove"         -> AgentsRemove(config, o, now)
    [] cmd = "agents:set-default"    -> AgentsSetDefault(config, o, now)
    [] cmd = "gateway:refresh-token" -> GatewayRefreshToken(config, o, now)
    [] cmd = "auth:add-profile"      -> AuthAddProfile(config, o, now)
    [] cmd = "edit"                  -> Edit(config, o, now)
    [] cmd = "models:test"           -> ModelsTest(config, o, now)
    [] OTHER                         -> View(config, o, now)

\* fs.writeFileSync(configPath, JSON.stringify(config, null, 2)): the file is
\* opened with O_TRUNC and then written; `cut` says the process was stopped
\* (killed, ENOSPC, power loss) after the truncation and before the last byte.
writeFileSync(fs, path, doc, cut) ==
  [fs EXCEPT ![path] = IF cut THEN Partial ELSE DocFile(doc)]

\* What is left of a run: the disk and the record of what happened (the
\* command line, the outcome, the resolution, whether the config file was
\* written, and the preference file as the process found it).
Exit(inv, before, fs, bf, outcome, r, wrote) ==
  [files |-> fs, botFile |-> bf,
   last |-> [cmd |-> inv.cmd, bot |-> inv.bot, clearBot |-> inv.clearBot,
             o |-> inv.o, outcome |-> outcome, target |-> r.bot,
             via |-> r.via, paths |-> r.paths, wrote |-> wrote,
             before |-> before, exported |-> << >>,
             request |-> NoRequest, shown |-> << >>]]

NoResolution == ResolveError("", BotFileAbsent, {})

\* init works on this path whatever --bot and the preference say.
OPENCLAW_CONFIG_PATH == ".openclaw/openclaw.json"

\* saveConfig(initialConfig): the program declares no saveConfig (no
\* function, no import), so evaluating the call throws a ReferenceError
\* and the disk stays as it is.
saveConfig(fs, config) == [thrown |-> "ReferenceError", files |-> fs]

\* The init handler without the test for an existing file.
InitCommandNoExistsCheck(inv, fs, bf, now) ==
  LET saved == saveConfig(fs, initialConfig(now, generateToken(RandomSource(inv.o.seed))))
  IN Exit(inv, bf, saved.files, bf, saved.thrown, NoResolution, FALSE)

\* The init handler: it reports an existing file and returns; otherwise it
\* builds initialConfig and calls saveConfig.  paths: the path it reports.
InitCommand(inv, fs, bf, now) ==
  IF existsSync(fs, OPENCLAW_CONFIG_PATH)
  THEN Exit(inv, bf, fs, bf, "AlreadyExists",
            [NoResolution EXCEPT !.paths = {OPENCLAW_CONFIG_PATH}], FALSE)
  ELSE LET saved == saveConfig(fs, initialConfig(now,
                                 generateToken(RandomSource(inv.o.seed))))
       IN Exit(inv, bf, saved.files, bf, saved.thrown, NoResolution, FALSE)

\* The command's handler, after getBotFromArgs returned botOption.
RunCommand(inv, before, botOption, fs, bf, now, cut) ==
  LET r == resolveConfigSync(botOption, fs, bf) IN
  IF r.err # ""
  THEN Exit(inv, before, fs, r.botFile, r.err, r, FALSE)
  ELSE LET h == IF inv.cmd = "import"
                THEN Import(ReadFile(fs, inv.o.file), now)
                ELSE IF fs[r.configPath].kind # "doc"
                     THEN Refused("ConfigParseError", <<>>)
                     ELSE Handle(inv.cmd, fs[r.configPath].doc, inv.o, now)
       IN IF h.write
          THEN Exit(inv, before, writeFileSync(fs, r.configPath, h.doc, cut),
                    r.botFile, IF cut THEN "interrupted" ELSE h.outcome, r, TRUE)
          ELSE IF inv.cmd = "export"
               THEN [Exit(inv, before, fs, r.botFile, h.outcome, r, FALSE)
                       EXCEPT !.last.exported = ExportOutput(r, fs[r.configPath])]
               ELSE IF inv.cmd = "models:test" /\ "request" \in DOMAIN h
               THEN [Exit(inv, before, fs, r.botFile, h.outcome, r, FALSE)
                       EXCEPT !.last.request = h.request, !.last.shown = h.shown]
               ELSE Exit(inv, before, fs, r.botFile, h.outcome, r, FALSE)

\* Run with --clear-bot clearing the preference and the command then running.
RunClearThenCommand(inv, fs, bf, now, cut) ==
  LET cleared == IF inv.clearBot THEN clearPreferredBot(bf) ELSE bf
      g == getBotFromArgs(inv.bot, fs, cleared)
  IN IF g.exited
     THEN Exit(inv, bf, fs, g.botFile, g.err,
               ResolveError(g.err, g.botFile, g.paths), FALSE)
     ELSE RunCommand(inv, bf, g.botId, fs, g.botFile, now, cut)

\* One run of the program: the module's top-level code, then the handler.
Run(inv, fs, bf, now, cut) ==
  IF inv.clearBot
  THEN Exit(inv, bf, fs, clearPreferredBot(bf), "cleared", NoResolution, FALSE)
  ELSE IF inv.cmd = "init"
  THEN InitCommand(inv, fs, bf, now)
  ELSE LET g == getBotFromArgs(inv.bot, fs, bf) IN
       IF g.exited
       THEN Exit(inv, bf, fs, g.botFile, g.err,
                 ResolveError(g.err, g.botFile, g.paths), FALSE)
       ELSE RunCommand(inv, bf, g.botId, fs, g.botFile, now, cut)

Invoke(cmd, o, bot, clearBot) ==
  [cmd |-> cmd, bot |-> bot, clearBot |-> clearBot, o |-> o]

\* Every command with every option, run without global flags.
DocInvocations ==
  UNION {{Invoke(c, o, "", FALSE) : o \in OptionsOf(c)} : c \in Commands}

\* init with --bot on its command line.
InitInvocations ==
  {Invoke("init", NoOptions, b, FALSE) : b \in BotArgs \ {""}}

\* Every combination of the global flags, on a reading command, on two
\* commands that write and on one that is refused.
SelectCommands ==
  {<<"view", NoOptions>>,
   <<"agents:add", [NoOptions EXCEPT !.id = "main"]>>,
   <<"agents:remove", [NoOptions EXCEPT !.id = "main"]>>,
   <<"import", [NoOptions EXCEPT !.file = "missing.json"]>>}

SelectInvocations ==
  {Invoke(c[1], c[2], b, k) : c \in SelectCommands, b \in BotArgs, k \in BOOLEAN}

\* ------------------------------------------------------------ state machine
Versions == {CURRENT_VERSION, OtherVersion}

\* No run yet, or the disk was changed from outside since the last one.
NoLast ==
  [cmd |-> "", bot |-> "", clearBot |-> FALSE, o |-> NoOptions, outcome |-> "",
   target |-> Null, via |-> "none", paths |-> {}, wrote |-> FALSE,
   before |-> BotFileAbsent, exported |-> << >>,
   request |-> NoRequest, shown |-> << >>]

\* The two processes of a pair of runs started together.
Procs == {"A", "B"}

\* A process before its run: pc is "idle", then "read" between the read of
\* the config file and the write, then "done".  run is the record of the
\* run, read the document it parsed, doc the document it is about to write.
NotStarted ==
  [pc |-> "idle", run |-> NoLast, path |-> Null, read |-> << >>,
   doc |-> << >>, now |-> 0]

\* Any set of host bots is installed, each with the document it was set up
\* with; the preference file is absent, damaged, or names any id.
Init ==
  /\ files \in [ConfigPaths -> {Absent, DocFile(HostDoc(OtherVersion))}]
  /\ botFile \in {BotFileAbsent, BotFileCorrupt}
                   \cup {BotFileOf(b) : b \in BotIds \cup {"otherbot", ""}}
  /\ clock = 0
  /\ last = NoLast
  /\ procs = [p \in Procs |-> NotStarted]

\* A document in use: HostDoc after providers:add, models:add and agents:add.
ConfiguredDoc(version) ==
  LET a == ProvidersAdd(HostDoc(version),
             [NoOptions EXCEPT !.name = "qiniu", !.baseUrl = "https://api.example.com/v1",
                               !.api = "openai-completions", !.auth = "api-key",
                               !.apiKey = "sk-1"], 0).doc
      b == ModelsAdd(a, [NoOptions EXCEPT !.provider = "qiniu", !.id = "m1",
                                          !.name = "display"], 0).doc
  IN AgentsAdd(b, [NoOptions EXCEPT !.id = "main"], 0).doc

\* One host bot is installed, its document fresh or in use, and no
\* preference is stored.
InitDoc ==
  /\ \E path \in ConfigPaths, v \in Versions :
       \E doc \in {HostDoc(v), ConfiguredDoc(v)} :
         files = [q \in ConfigPaths |-> IF q = path THEN DocFile(doc) ELSE Absent]
  /\ botFile = BotFileAbsent
  /\ clock = 0
  /\ last = NoLast
  /\ procs = [p \in Procs |-> NotStarted]

\* A run to its exit.  new Date() is later than every timestamp taken before.
Cli(inv) ==
  LET x == Run(inv, files, botFile, clock + 1, FALSE) IN
  /\ x.last.wrote => clock < MaxClock
  /\ files' = x.files
  /\ botFile' = x.botFile
  /\ last' = x.last
  /\ clock' = IF x.last.wrote THEN clock + 1 ELSE clock
  /\ UNCHANGED procs

\* A run stopped inside its fs.writeFileSync of the config file.
CliInterrupted(inv) ==
  LET x == Run(inv, files, botFile, clock + 1, TRUE) IN
  /\ x.last.wrote
  /\ clock < MaxClock
  /\ files' = x.files
  /\ botFile' = x.botFile
  /\ last' = x.last
  /\ clock' = clock + 1
  /\ UNCHANGED procs

\* A host bot is set up: its config file appears.
HostCreates(path) ==
  /\ files[path].kind = "absent"
  /\ files' = [files EXCEPT ![path] = DocFile(HostDoc(OtherVersion))]
  /\ last' = NoLast
  /\ UNCHANGED <<botFile, clock, procs>>

\* A host bot is removed: its config file disappears.
HostRemoves(path) ==
  /\ files[path].kind # "absent"
  /\ files' = [files EXCEPT ![path] = Absent]
  /\ last' = NoLast
  /\ UNCHANGED <<botFile, clock, procs>>

\* `<command> > out.json`: the run, its stdout collected in OutFile.
CliRedirected(inv) ==
  LET x == Run(inv, files, botFile, clock + 1, FALSE) IN
  /\ ~x.last.wrote
  /\ files' = [x.files EXCEPT ![OutFile] = TextFile(x.last.exported)]
  /\ botFile' = x.botFile
  /\ last' = x.last
  /\ clock' = clock
  /\ UNCHANGED procs

\* The run's write made only when the file still holds what the run read.
WriteBackIfUnchanged(fs, proc) ==
  IF fs[proc.path] = DocFile(proc.read)
  THEN writeFileSync(fs, proc.path, proc.doc, FALSE)
  ELSE fs

\* fs.writeFileSync(configPath, JSON.stringify(config, null, 2)) of a
\* process that read and changed its document before.
WriteBack(fs, proc) == writeFileSync(fs, proc.path, proc.doc, FALSE)

\* Process p runs from its start to just before fs.writeFileSync: the
\* resolution (which may write bot.json), the read of the config file and
\* the handler's change in memory with its timestamp.  A run that writes
\* nothing is over here.
Begin(p, inv) ==
  LET x == Run(inv, files, botFile, clock + 1, FALSE) IN
  /\ procs[p].pc = "idle"
  /\ botFile' = x.botFile
  /\ files' = files
  /\ IF x.last.wrote
     THEN LET path == getBotConfigPath(x.last.target) IN
          /\ procs' = [procs EXCEPT ![p] =
                         [pc |-> "read", run |-> x.last, path |-> path,
                          read |-> files[path].doc, doc |-> x.files[path].doc,
                          now |-> clock + 1]]
          /\ clock' = clock + 1
          /\ last' = last
     ELSE /\ procs' = [procs EXCEPT ![p] = [NotStarted EXCEPT !.pc = "done",
                                                             !.run = x.last]]
          /\ clock' = clock
          /\ last' = x.last

\* Process p reaches its fs.writeFileSync and exits.
Finish(p) ==
  /\ procs[p].pc = "read"
  /\ files' = WriteBack(files, procs[p])
  /\ procs' = [procs EXCEPT ![p].pc = "done"]
  /\ last' = procs'[p].run
  /\ UNCHANGED <<botFile, clock>>

\* Target selection: every flag and preference, bots coming and going.
Next ==
  \/ \E inv \in SelectInvocations : Cli(inv)
  \/ \E inv \in SelectInvocations : CliInterrupted(inv)
  \/ \E path \in ConfigPaths : HostCreates(path)
  \/ \E path \in ConfigPaths : HostRemoves(path)

Spec == Init /\ [][Next]_vars

\* Document editing: every command and option on the installed bot's file.
NextDoc ==
  \/ \E inv \in DocInvocations : Cli(inv)
  \/ \E inv \in DocInvocations : CliInterrupted(inv)
  \/ \E inv \in InitInvocations : Cli(inv)

SpecDoc == InitDoc /\ [][NextDoc]_vars

\* Export and re-import: any set of bots holds a document in use or one of
\* another release, any preference is stored, and nothing was exported yet.
InitRoundTrip ==
  /\ \E fs \in [ConfigPaths -> {Absent, DocFile(ConfiguredDoc(OtherVersion)),
                                 DocFile(ForeignDoc)}] :
       files = [q \in ConfigPaths \cup {OutFile} |->
                  IF q = OutFile THEN Absent ELSE fs[q]]
  /\ botFile \in {BotFileAbsent} \cup {BotFileOf(b) : b \in BotIds}
  /\ clock = 0
  /\ last = NoLast
  /\ procs = [p \in Procs |-> NotStarted]

ExportInvocations == {Invoke("export", NoOptions, b, FALSE) : b \in BotArgs}

ReimportInvocations ==
  {Invoke("import", [NoOptions EXCEPT !.file = OutFile], b, FALSE) : b \in BotArgs}

NextRoundTrip ==
  \/ \E inv \in ExportInvocations : CliRedirected(inv)
  \/ \E inv \in ReimportInvocations : Cli(inv)

\* Two runs at once on the installed bot's file, each adding a model or an
\* agent.
RaceInvocations ==
  UNION {{Invoke(c, o, "", FALSE) : o \in OptionsOf(c)} :
           c \in {"models:add", "agents:add"}}

NextRace ==
  \/ \E p \in Procs, inv \in RaceInvocations : Begin(p, inv)
  \/ \E p \in Procs : Finish(p)

SpecRace == InitDoc /\ [][NextRace]_vars

SpecRoundTrip == InitRoundTrip /\ [][NextRoundTrip]_vars

\* The auth modes and API types a provider is stored with.
TestAuths == {"bearer", "api-key", "token"}

TestApis == {"openai-completions", "anthropic-messages", "responses"}

\* A document whose provider qiniu is stored with the given members.
TestDoc(key, auth, api, baseUrl, primary) ==
  [HostDoc(OtherVersion) EXCEPT
     !.providers = Put(<<>>, "qiniu",
        [baseUrl |-> baseUrl, api |-> api, auth |-> auth, apiKey |-> key,
         models |-> << [id |-> "m1", name |-> "display"] >>]),
     !.primary = primary]

\* The test request: OpenClaw's document holds a provider with any key,
\* auth mode and API type, and any default model.
InitTest ==
  /\ \E key \in TestKeys, auth \in TestAuths, api \in TestApis,
        baseUrl \in {"https://api.example.com/v1", "https://api.example.com/v1/"},
        primary \in {Null, "qiniu/m1", "minimax/m2"} :
       files = [q \in ConfigPaths |->
                  IF q = OPENCLAW_CONFIG_PATH
                  THEN DocFile(TestDoc(key, auth, api, baseUrl, primary))
                  ELSE Absent]
  /\ botFile = BotFileAbsent
  /\ clock = 0
  /\ last = NoLast
  /\ procs = [p \in Procs |-> NotStarted]

TestInvocations ==
  {Invoke("models:test", NoOptions, b, FALSE) : b \in {"", "openclaw"}}
    \cup {Invoke("agents:set-default", o, "", FALSE) :
            o \in OptionsOf("agents:set-default")}

NextTest == \E inv \in TestInvocations : Cli(inv)

SpecTest == InitTest /\ [][NextTest]_vars

\* ------------------------------------------------------------ properties
\* A step that is a run of the program which got as far as its command
\* (no --clear-bot); last' describes it, the unprimed disk is what it found.
CommandRun == last'.cmd # "" /\ ~last'.clearBot

Exists(fs, botId) == fs[FindBot(botId).path].kind # "absent"

\* The first bot of the registry, in its order, whose config file exists.
FirstInRegistry(fs, botId) ==
  \E i \in DOMAIN BOT_CONFIGS :
    /\ BOT_CONFIGS[i].id = botId
    /\ fs[BOT_CONFIGS[i].path].kind # "absent"
    /\ \A j \in 1..(i - 1) : fs[BOT_CONFIGS[j].path].kind = "absent"

NoneExists(fs) == \A q \in ConfigPaths : fs[q].kind = "absent"

\* bot.json names a registry bot whose config file exists.
UsablePreference(fs, bf) ==
  bf.kind = "json" /\ bf.bot \in BotIds /\ Exists(fs, bf.bot)

\* What C1 asks of one step.
C1_Step ==
  CommandRun =>
    /\ (last'.bot \in BotIds /\ Exists(files, last'.bot))
         => last'.target = last'.bot
    /\ (last'.bot = "" /\ UsablePreference(files, botFile))
         => last'.target = botFile.bot
    /\ (last'.bot = "" /\ ~UsablePreference(files, botFile) /\ ~NoneExists(files))
         => FirstInRegistry(files, last'.target)
    /\ (last'.bot = "" /\ ~UsablePreference(files, botFile) /\ NoneExists(files))
         => last'.target = Null

\* C1: the target a run resolves is the --bot id when that id is in the
\* registry and its file exists; with no --bot, the bot the preference file
\* names when that is a registry bot whose file exists, otherwise the first
\* bot in registry order whose file exists (none: no target).
C1_ResolutionOrder == [][C1_Step]_vars

\* Files of the 2nd and 3rd bot only, no usable preference: the 2nd was picked.
C1_Witness ==
  /\ last.cmd # "" /\ last.bot = "" /\ last.via = "auto"
  /\ last.target = "clawdbot"
  /\ files[".openclaw/openclaw.json"].kind = "absent"
  /\ files[".moltbot/moltbot.json"].kind # "absent"

\* What C2 asks of one step.
C2_Step ==
  CommandRun =>
    /\ last'.via \in {"auto", "explicit"} => botFile' = BotFileOf(last'.target)
    /\ (last'.bot = "" /\ UsablePreference(files, botFile))
         => /\ last'.target = botFile.bot
            /\ last'.via = "saved"
            /\ botFile' = botFile

\* C2: a run whose target came from auto-detect or from --bot leaves the
\* preference file naming that target; and a run without --bot that finds the
\* preference file naming a registry bot whose file exists resolves that bot
\* from the preference alone (no scan, preference file left as it is),
\* whatever other config files exist.
C2_StickySelection == [][C2_Step]_vars

\* The 3rd bot is resolved from the preference while the 1st bot's file exists.
C2_Witness ==
  /\ last.cmd # "" /\ last.bot = "" /\ last.via = "saved"
  /\ last.target = "moltbot"
  /\ botFile = BotFileOf("moltbot")
  /\ files[".openclaw/openclaw.json"].kind # "absent"

\* What C3 as stated asks of one step.
C3_OriginalStep ==
  last'.cmd # "" =>
    /\ (last'.bot # "" /\ last'.bot \notin BotIds)
         => last'.outcome = "UnknownTarget" /\ UNCHANGED <<files, botFile>>
    /\ (last'.bot \in BotIds /\ ~Exists(files, last'.bot))
         => last'.outcome = "ConfigFileNotFound" /\ UNCHANGED <<files, botFile>>

C3_Step ==
  CommandRun =>
    /\ (last'.bot # "" /\ last'.bot \notin BotIds)
         => last'.outcome = "UnknownTarget" /\ UNCHANGED <<files, botFile>>
    /\ (last'.bot \in BotIds /\ ~Exists(files, last'.bot))
         => last'.outcome = "ConfigFileNotFound" /\ UNCHANGED <<files, botFile>>

C4_OriginalStep ==
  (CommandRun /\ last'.bot = "" /\ botFile = BotFileAbsent
              /\ NoneExists(files))
    => /\ last'.outcome = "NoTargetsAvailable"
       /\ last'.paths = ConfigPaths
       /\ botFile' = botFile

\* C4 as stated: with no --bot, no preference file and no config file the
\* run ends with NoTargetsAvailable, its message names the config path of
\* each of the three bots, and bot.json is not written.
C4_Original == [][C4_OriginalStep]_vars

\* bot.json holds no usable preference: it is absent, unreadable or not JSON,
\* names no registry bot, or names one whose config file is gone.
StalePreference(fs, bf) == ~UsablePreference(fs, bf)

ResolutionErrors == {"UnknownTarget", "ConfigFileNotFound", "NoTargetsAvailable"}

\* What C5 asks of one step.
C5_Step ==
  (CommandRun /\ last'.bot = "" /\ StalePreference(files, botFile))
    => IF NoneExists(files)
       THEN last'.outcome = "NoTargetsAvailable"
       ELSE /\ FirstInRegistry(files, last'.target)
            /\ last'.outcome \notin ResolutionErrors
            /\ botFile' = BotFileOf(last'.target)

C6_Step ==
  last'.clearBot =>
    /\ botFile' = BotFileAbsent
    /\ last'.outcome = "cleared"
    /\ last'.target = Null /\ ~last'.wrote
    /\ UNCHANGED <<files, clock>>

\* C6: a run with --clear-bot leaves bot.json absent and does nothing else:
\* no target is resolved, no handler runs, no config file changes, no
\* timestamp is taken, whatever --bot value and subcommand it was given.
C6_ClearBotExits == [][C6_Step]_vars

\* --clear-bot together with a valid --bot and a writing subcommand, on a
\* stored preference.
C6_Witness ==
  /\ last.clearBot /\ last.bot = "moltbot" /\ last.cmd = "agents:add"
  /\ last.before = BotFileOf("openclaw")
  /\ files[".moltbot/moltbot.json"].kind = "doc"
  /\ botFile = BotFileAbsent

\* C7 as stated: a write of the config file is all-or-nothing, so no config
\* file is ever found truncated (a strict prefix of a document, not JSON),
\* whenever a run is stopped.
C7_Original == \A q \in ConfigPaths : files[q].kind # "partial"

\* The document in the config file of the last run's target.
TargetDoc == files[getBotConfigPath(last.target)].doc

\* C8 as stated: the document a changing command persisted carries
\* meta.lastTouchedAt = the time of the run and meta.lastTouchedVersion =
\* CURRENT_VERSION.
C8_Original ==
  (last.wrote /\ last.outcome = "ok")
    => /\ TargetDoc.meta.lastTouchedAt = clock
       /\ TargetDoc.meta.lastTouchedVersion = CURRENT_VERSION

\* No id occurs at two positions of the list.
UniqueIds(list) ==
  \A i, j \in DOMAIN list : list[i].id = list[j].id => i = j

\* C9 as stated: in every document on disk the model ids of each provider
\* and the agent ids of agents.list are unique.
C9_Original ==
  \A q \in ConfigPaths :
    files[q].kind = "doc" =>
      /\ \A n \in DOMAIN files[q].doc.providers :
           UniqueIds(files[q].doc.providers[n].models)
      /\ UniqueIds(files[q].doc.list)

HasId(list, id) == \E i \in DOMAIN list : list[i].id = id

Refusals ==
  {"NotFound", "ProviderNotFound", "ModelNotFound", "DuplicateModel",
   "DuplicateAgent", "AgentNotFound"}

\* What C10 asks of one step.
C10_Step ==
  (CommandRun /\ last'.target # Null
              /\ files[getBotConfigPath(last'.target)].kind = "doc")
    => LET d == files[getBotConfigPath(last'.target)].doc
           o == last'.o
           cmd == last'.cmd
           Refuses(outcome) == last'.outcome = outcome /\ files' = files
       IN /\ (cmd \in {"models:add", "models:remove"}
                /\ o.provider \notin DOMAIN d.providers)
               => Refuses("ProviderNotFound")
          /\ (cmd = "models:add" /\ o.provider \in DOMAIN d.providers
                /\ HasId(d.providers[o.provider].models, o.id))
               => Refuses("DuplicateModel")
          /\ (cmd = "models:remove" /\ o.provider \in DOMAIN d.providers
                /\ ~HasId(d.providers[o.provider].models, o.id))
               => Refuses("ModelNotFound")
          /\ (cmd = "providers:remove" /\ o.name \notin DOMAIN d.providers)
               => Refuses("NotFound")
          /\ (cmd = "agents:add" /\ HasId(d.list, o.id))
               => Refuses("DuplicateAgent")
          /\ (cmd = "agents:remove" /\ ~HasId(d.list, o.id))
               => Refuses("AgentNotFound")
          /\ last'.outcome \in Refusals => files' = files

\* C10: a run whose command meets one of the refusal conditions in the
\* document it reads (models:add of a present id or under a missing
\* provider, models:remove under a missing provider or of a missing id,
\* providers:remove of an absent name, agents:add of a present id,
\* agents:remove of an absent id) ends with that refusal, and a refused run
\* leaves every config file exactly as it was, meta included.
C10_RefusedChangesNothing == [][C10_Step]_vars

\* models:add of an id the provider already holds was refused, the
\* provider's one model still in place.
C10_Witness ==
  /\ last.cmd = "models:add" /\ last.outcome = "DuplicateModel"
  /\ last.o.provider = "qiniu" /\ last.o.id = "m1"
  /\ Len(TargetDoc.providers["qiniu"].models) = 1

\* The documents agree in every member other than meta.
SameContent(a, b) ==
  /\ a.profiles = b.profiles /\ a.providers = b.providers
  /\ a.primary = b.primary /\ a.list = b.list
  /\ a.port = b.port /\ a.token = b.token

\* What C11 as stated asks of one step: `export > out.json` has just printed
\* the target's document, and the step is `import -f out.json` into that target.
C11_OriginalStep ==
  (/\ last.cmd = "export" /\ last.outcome = "ok"
   /\ OutFile \in DOMAIN files /\ files[OutFile] = TextFile(last.exported)
   /\ last'.cmd = "import" /\ last'.o.file = OutFile
   /\ last'.target = last.target)
    => LET path == getBotConfigPath(last.target) IN
       /\ files'[path].kind = "doc"
       /\ SameContent(files'[path].doc, files[path].doc)
       /\ files'[path].doc.meta = [lastTouchedVersion |-> CURRENT_VERSION,
                                   lastTouchedAt |-> clock', other |-> NoFields]

\* C11 as stated: importing the exact output of export into the same target
\* leaves a document equal to the exported one in everything but meta, whose
\* meta is exactly {lastTouchedVersion: CURRENT_VERSION, lastTouchedAt: now}.
C11_Original == [][C11_OriginalStep]_vars

\* 0-9a-f
HexDigits == {"0", "1", "2", "3", "4", "5", "6", "7", "8", "9",
              "a", "b", "c", "d", "e", "f"}

\* What C12 as stated asks of one step.
C12_OriginalStep ==
  (last'.cmd = "init" /\ ~last'.clearBot
     /\ files[OPENCLAW_CONFIG_PATH].kind = "absent")
    => LET f == files'[OPENCLAW_CONFIG_PATH] IN
       /\ f.kind = "doc"
       /\ DOMAIN f.doc.providers = {} /\ DOMAIN f.doc.profiles = {}
       /\ f.doc.list = << >> /\ f.doc.primary = Null /\ f.doc.port = 18789
       /\ Len(f.doc.token) = 40
       /\ \A i \in 1..40 : f.doc.token[i] \in HexDigits

\* C12 as stated: when init's config file does not exist, after init the
\* file exists and holds the default document (no providers, no auth
\* profiles, empty agents.list, primary null, port 18789) with a gateway
\* token of exactly 40 characters of 0-9a-f.
C12_Original == [][C12_OriginalStep]_vars

\* What C13 asks of one step.
C13_Step ==
  (last'.cmd = "init" /\ ~last'.clearBot
     /\ files[OPENCLAW_CONFIG_PATH].kind # "absent")
    => /\ UNCHANGED <<files, botFile, clock>>
       /\ ~last'.wrote
       /\ last'.outcome = "AlreadyExists"
       /\ last'.paths = {OPENCLAW_CONFIG_PATH}

\* C13: when init's config file exists, init writes nothing (every config
\* file, token and meta included, and bot.json are as before, no timestamp
\* is taken) and it reports the path of the existing file.
C13_InitIdempotent == [][C13_Step]_vars

\* init ran on a document in use and left it in place.
C13_Witness ==
  /\ last.cmd = "init" /\ last.outcome = "AlreadyExists"
  /\ files[OPENCLAW_CONFIG_PATH].kind = "doc"
  /\ files[OPENCLAW_CONFIG_PATH].doc.list # << >>
  /\ files[OPENCLAW_CONFIG_PATH].doc.meta.lastTouchedVersion = OtherVersion

\* The value of the header `name` in a header list, << >> when it has none.
HeaderValue(headers, name) ==
  IF \E i \in DOMAIN headers : headers[i].name = name
  THEN headers[CHOOSE i \in DOMAIN headers : headers[i].name = name].value
  ELSE << >>

HasHeader(headers, name) == \E i \in DOMAIN headers : headers[i].name = name

\* The provider the last models:test sent its request for.
TestedProvider == TargetDoc.providers[SplitModel(TargetDoc.primary).providerName]

\* C14: the request of models:test carries, for a provider with a stored
\* (non-empty) key and auth "bearer", Authorization: Bearer <key> and no
\* X-API-Key; with a stored key and any other auth mode, Authorization:
\* Bearer <key> and X-API-Key: <key>; with no stored key, neither header;
\* whatever the provider's API type, base URL and model.
C14_AuthHeaders ==
  (last.cmd = "models:test" /\ last.outcome = "sent")
    => LET h == last.request.headers
           key == TestedProvider.apiKey
       IN /\ (key # "" /\ TestedProvider.auth = "bearer")
               => /\ HeaderValue(h, "Authorization") = Bearer(key)
                  /\ ~HasHeader(h, "X-API-Key")
          /\ (key # "" /\ TestedProvider.auth # "bearer")
               => /\ HeaderValue(h, "Authorization") = Bearer(key)
                  /\ HeaderValue(h, "X-API-Key") = Spell(key)
          /\ key = ""
               => /\ ~HasHeader(h, "Authorization")
                  /\ ~HasHeader(h, "X-API-Key")

\* A 39-character key under "bearer" on the Anthropic API: one auth header.
C14_Witness ==
  /\ last.cmd = "models:test" /\ last.outcome = "sent"
  /\ TestedProvider.auth = "bearer" /\ Len(Spell(TestedProvider.apiKey)) = 39
  /\ TestedProvider.api = "anthropic-messages"
  /\ HasHeader(last.request.headers, "Authorization")
  /\ ~HasHeader(last.request.headers, "X-API-Key")

\* The last n characters of a string.
LastChars(str, n) == SubSeq(str, Len(str) - n + 1, Len(str))

\* Headers whose name contains "api" or "authorization", case-insensitively.
CredentialHeaders == {"Authorization", "X-API-Key"}

\* C15 as stated: in the displayed headers, a key longer than 32 characters
\* shows as the mask string followed by its last 4 characters, and a key
\* shorter than 32 characters as the mask string alone.
C15_Original ==
  (last.cmd = "models:test" /\ last.outcome = "sent")
    => LET key == Spell(TestedProvider.apiKey) IN
       \A i \in DOMAIN last.shown :
         last.shown[i].name \in CredentialHeaders
           => /\ Len(key) > 32 => last.shown[i].value = MaskString \o LastChars(key, 4)
              /\ Len(key) < 32 => last.shown[i].value = MaskString

\* C15 amended: every header whose name contains "api" or "authorization"
\* is displayed with the last 32 characters of its value replaced by the
\* 32-character mask string when the value is longer than 32 characters
\* (the characters before them are shown), and as the mask string alone
\* when the value has at most 32 characters; other headers are shown as sent.
C15_MaskedDisplay ==
  (last.cmd = "models:test" /\ last.outcome = "sent")
    => /\ Len(last.shown) = Len(last.request.headers)
       /\ \A i \in DOMAIN last.shown :
            LET name == last.request.headers[i].name
                value == last.request.headers[i].value
            IN /\ last.shown[i].name = name
               /\ (name \in CredentialHeaders /\ Len(value) > 32)
                    => /\ Len(last.shown[i].value) = Len(value)
                       /\ LastChars(last.shown[i].value, 32) = MaskString
                       /\ SubSeq(last.shown[i].value, 1, Len(value) - 32)
                            = SubSeq(value, 1, Len(value) - 32)
               /\ (name \in CredentialHeaders /\ Len(value) <= 32)
                    => last.shown[i].value = MaskString
               /\ name \notin CredentialHeaders => last.shown[i].value = value

\* The 39-character key was displayed in X-API-Key as its first 7
\* characters and the mask.
C15_Witness ==
  /\ last.cmd = "models:test" /\ last.outcome = "sent"
  /\ Len(Spell(TestedProvider.apiKey)) = 39
  /\ HasHeader(last.shown, "X-API-Key")
  /\ HeaderValue(last.shown, "X-API-Key")
       = << "s", "k", "-", "a", "b", "c", "d" >> \o MaskString

\* What C16 asks of one step: the write of a process that read earlier.
C16_Step ==
  \A p \in Procs :
    (procs[p].pc = "read" /\ procs'[p].pc = "done")
      => LET run == procs[p].run IN
         /\ files'[procs[p].path] =
              DocFile(Handle(run.cmd, procs[p].read, run.o, procs[p].now).doc)
         /\ procs'[p].run.outcome = "ok"
         /\ last'.outcome = "ok"

\* C16: a run that read the config file and passed its own checks writes
\* its own document, computed from what it read, over whatever the file
\* holds by then, and reports success; so in the order read A, read B,
\* write A, write B the file ends as B's document without A's change.  A
\* process that has read can always go on to its write.
C16_LastWriterWins ==
  /\ [][C16_Step]_vars
  /\ [](\A p \in Procs : procs[p].pc = "read" => ENABLED Finish(p))

\* A added agent "code" and B model m2, both read before either wrote, both
\* ended ok, B wrote last: the file has m2 and no agent "code".
C16_Witness ==
  /\ procs["A"].pc = "done" /\ procs["B"].pc = "done"
  /\ procs["A"].run.cmd = "agents:add" /\ procs["A"].run.o.id = "code"
  /\ procs["A"].run.outcome = "ok" /\ procs["A"].now = 1
  /\ last = procs["B"].run /\ last.cmd = "models:add" /\ last.outcome = "ok"
  /\ procs["B"].now = 2 /\ procs["B"].read.meta.lastTouchedAt = 0
  /\ HasId(TargetDoc.providers["qiniu"].models, "m2")
  /\ ~HasId(TargetDoc.list, "code")

\* A step that is a run of `cmd` to its end on a target whose file parses.
Completes(cmd) ==
  /\ CommandRun /\ last'.cmd = cmd /\ last'.target # Null
  /\ files[getBotConfigPath(last'.target)].kind = "doc"
  /\ last'.outcome # "interrupted"

\* What C17 asks of one step.
C17_Step ==
  Completes("providers:add")
    => LET path == getBotConfigPath(last'.target)
           d == files[path].doc
           o == last'.o
       IN /\ last'.outcome = "ok"
          /\ files'[path].kind = "doc"
          /\ LET e == files'[path].doc IN
             /\ DOMAIN e.providers = DOMAIN d.providers \cup {o.name}
             /\ e.providers[o.name] =
                  [baseUrl |-> o.baseUrl, api |-> o.api, auth |-> o.auth,
                   apiKey |-> o.apiKey, models |-> << >>]
             /\ \A n \in DOMAIN d.providers \ {o.name} :
                  e.providers[n] = d.providers[n]
             /\ e.list = d.list /\ e.primary = d.primary
             /\ e.port = d.port /\ e.token = d.token
             /\ e.profiles = d.profiles
          /\ \A q \in ConfigPaths \ {path} : files'[q] = files[q]

\* C17: providers:add never fails, whether or not the name is stored;
\* afterwards models.providers[name] is the given baseUrl/api/auth/apiKey
\* with an empty models list (the models of a re-added provider are gone),
\* and the other providers, agents, gateway and auth profiles are unchanged.
C17_ProvidersAddUpsert == [][C17_Step]_vars

\* Provider qiniu, which held model m1, was added again and holds no model.
C17_Witness ==
  /\ last.cmd = "providers:add" /\ last.outcome = "ok" /\ last.o.name = "qiniu"
  /\ TargetDoc.list # << >>
  /\ TargetDoc.providers["qiniu"].models = << >>
  /\ TargetDoc.providers["qiniu"].auth = "bearer"

\* What C18 asks of one step.
C18_Step ==
  Completes("agents:set-default")
    => LET path == getBotConfigPath(last'.target)
           d == files[path].doc
           o == last'.o
       IN /\ last'.outcome = "ok"
          /\ files'[path] = DocFile([d EXCEPT !.primary = o.model,
                                              !.meta.lastTouchedAt = clock'])
          /\ \A a \in AgentIds \cup {"nobody"} :
               files'[path] =
                 DocFile(AgentsSetDefault(d, [o EXCEPT !.agent = a], clock').doc)

\* C18: agents:set-default always succeeds and persists the document it
\* read with agents.defaults.model.primary set to the given model and
\* lastTouchedAt to now, nothing else changed (agents.list included),
\* whether or not the model's provider or the agent exists; the persisted
\* document is the one any other --agent value gives.
C18_SetDefaultIgnoresAgent == [][C18_Step]_vars

\* The default was set for agent "code", which agents.list does not hold,
\* to a model of a provider that is not stored.
C18_Witness ==
  /\ last.cmd = "agents:set-default" /\ last.outcome = "ok"
  /\ last.o.agent = "code" /\ ~HasId(TargetDoc.list, "code")
  /\ TargetDoc.primary = "minimax/m2"
  /\ "minimax" \notin DOMAIN TargetDoc.providers

====
